---- MODULE Spec2Model ----
(***************************************************************************)
(* Model of the OpenFlow group message handlers of the OFStateManager      *)
(* module (group_handlers.c): the group hashtable, the calls made to the   *)
(* forwarding backend (indigo_fwd_group_add and the like), and the messages  *)
(* sent on the controller connection.                                      *)
(*                                                                         *)
(* Handlers run to completion, one request at a time, so every handler is  *)
(* one action.  The variables req, calls and sent record the request the   *)
(* last handler processed, the backend calls it made (in order) and the    *)
(* messages it sent (in order); reported records, for every valid id, the  *)
(* durations the last two stats replies gave for the record the id has.    *)
(***************************************************************************)
EXTENDS Integers, Sequences, FiniteSets, TLC

(***************************************************************************)
(* Group ids are uint32_t in the code.  The id space is scaled down so     *)
(* that it can be enumerated: 0..OF_GROUP_MAX are the valid ids, the ids   *)
(* above are reserved, OF_GROUP_ALL is the wildcard and OF_GROUP_ANY the   *)
(* top of the id space (0xffffff00, 0xfffffffc, 0xffffffff in OpenFlow).   *)
(***************************************************************************)
OF_GROUP_MAX == 1
OF_GROUP_ALL == OF_GROUP_MAX + 2
OF_GROUP_ANY == OF_GROUP_MAX + 3
GroupIds == 0..OF_GROUP_ANY

\* uint8_t group type of a request; OF_GROUP_TYPE_ALL = 0, OF_GROUP_TYPE_SELECT = 1
GroupTypes == {0, 1}

\* Bucket lists a request can carry: order is significant.
BucketLists == {<<1, 2>>, <<2, 1>>}

\* INDIGO_CURRENT_TIME (milliseconds) is read as a multiple of TickMs, at
\* most MaxTime ticks after the start.
MaxTime == 1
TickMs == 700
ClockValues == {k * TickMs : k \in 0..MaxTime}

\* Number of entries a stats reply can hold before of_list_append fails.
MaxCap == 2

\* Error codes of the OF_ERROR_TYPE_GROUP_MOD_FAILED family
OF_GROUP_MOD_FAILED_EPERM == "EPERM"
OF_GROUP_MOD_FAILED_GROUP_EXISTS == "GROUP_EXISTS"
OF_GROUP_MOD_FAILED_INVALID_GROUP == "INVALID_GROUP"
OF_GROUP_MOD_FAILED_UNKNOWN_GROUP == "UNKNOWN_GROUP"
OF_ERROR_TYPE_GROUP_MOD_FAILED == "GROUP_MOD_FAILED"

\* indigo_error_t results of the backend
INDIGO_ERROR_NONE == 0
INDIGO_ERROR_UNKNOWN == -1
FwdResults == {INDIGO_ERROR_NONE, INDIGO_ERROR_UNKNOWN}

VARIABLES
    ind_core_group_hashtable, \* sequence of ind_core_group_t, in iteration order
    fwd,                      \* ids the forwarding backend has programmed
    now,                      \* last value read from INDIGO_CURRENT_TIME
    req,                      \* the request the last handler processed
    calls,                    \* backend calls made by the last handler
    sent,                     \* messages sent on the connection by the last handler
    reported                  \* id -> the last two durations (ms) reported for its record

vars == <<ind_core_group_hashtable, fwd, now, req, calls, sent, reported>>

\* typedef struct ind_core_group_s
ind_core_group_t == [id : GroupIds, type : GroupTypes, buckets : BucketLists,
                     creation_time : ClockValues]

(***************************************************************************)
(* The hashtable (bighash template instantiated on the id field).          *)
(***************************************************************************)
\* Indexes of the entries of table t whose key is id
Matching(t, id) == {i \in 1..Len(t) : t[i].id = id}

Min(S) == CHOOSE x \in S : \A y \in S : x <= y

\* group_hashtable_first: index of the first entry with that key, 0 if none
group_hashtable_first(t, id) ==
    IF Matching(t, id) = {} THEN 0 ELSE Min(Matching(t, id))

\* A lookup that finds nothing
ind_core_group_lookup_none(t, id) == 0

\* ind_core_group_lookup: returns the entry's index, 0 for NULL
ind_core_group_lookup(t, id) == group_hashtable_first(t, id)

\* group_hashtable_insert: links the entry in, without looking for the key
group_hashtable_insert(t, group) == <<group>> \o t

\* A remove that unlinks the head of the table
bighash_remove_head(t, i) == Tail(t)

\* bighash_remove: unlinks the entry at index i
bighash_remove(t, i) == [j \in 1..(Len(t) - 1) |-> IF j < i THEN t[j] ELSE t[j + 1]]

\* The ids that have a record
StoredIds == {ind_core_group_hashtable[i].id : i \in 1..Len(ind_core_group_hashtable)}

(***************************************************************************)
(* The forwarding backend.  A call is recorded with its result; fwd is the *)
(* set of ids the backend has programmed: a successful add programs the    *)
(* id, a delete removes it, modify and stats_get leave the set alone.      *)
(***************************************************************************)
indigo_fwd_group_add(id, type, buckets, result) ==
    [fn |-> "add", id |-> id, type |-> type, buckets |-> buckets, result |-> result]
indigo_fwd_group_modify(id, buckets, result) ==
    [fn |-> "modify", id |-> id, buckets |-> buckets, result |-> result]
indigo_fwd_group_delete(id) == [fn |-> "delete", id |-> id]
indigo_fwd_group_stats_get(id) == [fn |-> "stats_get", id |-> id]

FwdApply(f, call) ==
    CASE call.fn = "add" ->
            IF call.result = INDIGO_ERROR_NONE THEN f \cup {call.id} ELSE f
      [] call.fn = "delete" -> f \ {call.id}
      [] OTHER -> f

RECURSIVE FwdApplyAll(_, _)
FwdApplyAll(f, cs) ==
    IF cs = << >> THEN f ELSE FwdApplyAll(FwdApply(f, Head(cs)), Tail(cs))

(***************************************************************************)
(* Messages on the controller connection.                                  *)
(***************************************************************************)
\* An error reply that does not carry the request
indigo_cxn_send_error_reply_noecho(obj, err_type, err_code) ==
    [kind |-> "error", orig |-> [op |-> "none"], err_type |-> err_type,
     err_code |-> err_code]

\* indigo_cxn_send_error_reply(cxn_id, obj, err_type, err_code)
indigo_cxn_send_error_reply(obj, err_type, err_code) ==
    [kind |-> "error", orig |-> obj, err_type |-> err_type, err_code |-> err_code]

(***************************************************************************)
(* Pieces of the handlers.                                                 *)
(***************************************************************************)
\* "id <= OF_GROUP_MAX": the id is in the valid range
InRange(id) == id <= OF_GROUP_MAX

\* "if (id <= OF_GROUP_MAX) group = ind_core_group_lookup(id)", group = NULL before
LookupInRange(t, id) == IF InRange(id) THEN ind_core_group_lookup(t, id) ELSE 0

\* A result test that takes every result for a success
Failed_never(result) == FALSE

\* A result test with the sign the wrong way round
Failed_inverted(result) == result >= 0

\* "result < 0": the backend call failed
Failed(result) == result < 0

\* A record whose type is not taken from the request
NewGroup_type0(id, type, buckets, t) ==
    [id |-> id, type |-> 0, buckets |-> buckets, creation_time |-> t]

\* The record the add handler allocates and fills in
NewGroup(id, type, buckets, t) ==
    [id |-> id, type |-> type, buckets |-> buckets, creation_time |-> t]

\* Add validations that lack the range test, leave the default error code
\* for an id out of range, or lack the test for an existing record
AddCheck_norange(t, id) ==
    IF LookupInRange(t, id) # 0 THEN OF_GROUP_MOD_FAILED_GROUP_EXISTS ELSE "OK"
AddCheck_eperm(t, id) ==
    IF LookupInRange(t, id) # 0 THEN OF_GROUP_MOD_FAILED_GROUP_EXISTS
    ELSE IF id > OF_GROUP_MAX THEN OF_GROUP_MOD_FAILED_EPERM
    ELSE "OK"
AddCheck_noexists(t, id) ==
    IF id > OF_GROUP_MAX THEN OF_GROUP_MOD_FAILED_INVALID_GROUP ELSE "OK"

\* Validation of the add handler: the error code it jumps to "error" with,
\* or "OK" when it goes on to the backend call
AddCheck(t, id) ==
    IF LookupInRange(t, id) # 0 THEN OF_GROUP_MOD_FAILED_GROUP_EXISTS
    ELSE IF id > OF_GROUP_MAX THEN OF_GROUP_MOD_FAILED_INVALID_GROUP
    ELSE "OK"

\* A modify validation that tests the range the way the add handler does
ModifyCheck_range(t, id) ==
    IF id > OF_GROUP_MAX THEN OF_GROUP_MOD_FAILED_INVALID_GROUP
    ELSE IF LookupInRange(t, id) = 0 THEN OF_GROUP_MOD_FAILED_UNKNOWN_GROUP
    ELSE "OK"

\* Validation of the modify handler
ModifyCheck(t, id) ==
    IF LookupInRange(t, id) = 0 THEN OF_GROUP_MOD_FAILED_UNKNOWN_GROUP ELSE "OK"

\* Backend calls of a modify that always deletes and adds again
ModifyCalls_readd(group, id, type, buckets, result) ==
    <<indigo_fwd_group_delete(id), indigo_fwd_group_add(id, type, buckets, result)>>

\* The backend calls of the modify handler for the record group
ModifyCalls(group, id, type, buckets, result) ==
    IF group.type = type
    THEN <<indigo_fwd_group_modify(id, buckets, result)>>
    ELSE <<indigo_fwd_group_delete(id), indigo_fwd_group_add(id, type, buckets, result)>>

\* A modify that replaces the buckets and leaves the type
ModifiedGroup_keeptype(group, type, buckets) ==
    [group EXCEPT !.buckets = buckets]

\* The record after a successful modify
ModifiedGroup(group, type, buckets) ==
    [group EXCEPT !.type = type, !.buckets = buckets]

\* ind_core_group_delete_one: the backend call it makes for the record group
DeleteOneCall(group) == indigo_fwd_group_delete(group.id)

\* A delete_one that leaves the entry in the table
ind_core_group_delete_one_keep(t, i) == t

\* ind_core_group_delete_one: the table after it removed the entry at index i
ind_core_group_delete_one(t, i) == bighash_remove(t, i)

\* bighash_iter_start, bighash_iter_next: the entries still to visit.  The
\* iterator keeps its next entry, so the entry it returned can be removed
\* and every entry of the table is visited once.
bighash_iter_start(t) == t
bighash_iter_next(it) == Tail(it)

\* Index of the entry group in table t (the entry an iterator points at)
IndexOf(t, group) == Min({i \in 1..Len(t) : t[i] = group})

\* The loop of the delete handler over the table: it holds the entries the
\* iterator has still to visit (the iterator keeps its next entry, so the
\* entry it returned can be removed), t the table, cs the backend calls.
RECURSIVE DeleteAllLoop(_, _, _)
DeleteAllLoop(t, it, cs) ==
    IF it = << >> THEN [table |-> t, calls |-> cs]
    ELSE DeleteAllLoop(ind_core_group_delete_one(t, IndexOf(t, Head(it))),
                       bighash_iter_next(it), Append(cs, DeleteOneCall(Head(it))))

\* calc_duration: the time from entry_time to current_time (milliseconds)
\* as seconds and nanoseconds
calc_duration(current_time, entry_time) ==
    [sec |-> (current_time - entry_time) \div 1000,
     nsec |-> ((current_time - entry_time) % 1000) * 1000000]

\* Entries that lack the group id, or whose duration runs from the current
\* time to the creation time
ind_core_group_stats_entry_populate_noid(group, current_time) ==
    [group_id |-> 0,
     duration_sec |-> calc_duration(current_time, group.creation_time).sec,
     duration_nsec |-> calc_duration(current_time, group.creation_time).nsec]
ind_core_group_stats_entry_populate_swapped(group, current_time) ==
    [group_id |-> group.id,
     duration_sec |-> calc_duration(group.creation_time, current_time).sec,
     duration_nsec |-> calc_duration(group.creation_time, current_time).nsec]

\* ind_core_group_stats_entry_populate: the fields it sets in the entry
\* (the counters come from indigo_fwd_group_stats_get)
ind_core_group_stats_entry_populate(group, current_time) ==
    [group_id |-> group.id,
     duration_sec |-> calc_duration(current_time, group.creation_time).sec,
     duration_nsec |-> calc_duration(current_time, group.creation_time).nsec]

\* An append that never fails
AppendFails_never(entries, cap) == FALSE

\* of_list_append(&entries, entry) < 0: the reply holds cap entries at most
AppendFails(entries, cap) == Len(entries) >= cap

\* The loop of the stats handler for OF_GROUP_ALL
RECURSIVE StatsLoop(_, _, _, _, _)
StatsLoop(it, entries, cs, cap, current_time) ==
    IF it = << >> THEN [entries |-> entries, calls |-> cs]
    ELSE IF AppendFails(entries, cap)
         THEN [entries |-> entries,
               calls |-> Append(cs, indigo_fwd_group_stats_get(Head(it).id))]
         ELSE StatsLoop(Tail(it),
                        Append(entries,
                               ind_core_group_stats_entry_populate(Head(it), current_time)),
                        Append(cs, indigo_fwd_group_stats_get(Head(it).id)),
                        cap, current_time)

\* A desc stats entry whose type is not set
DescEntry_notype(group) ==
    [group_id |-> group.id, type |-> 0, buckets |-> group.buckets]

\* The entry the desc stats handler fills in for the record group
DescEntry(group) ==
    [group_id |-> group.id, type |-> group.type, buckets |-> group.buckets]

\* The loop of the desc stats handler
RECURSIVE DescLoop(_, _, _)
DescLoop(it, entries, cap) ==
    IF it = << >> \/ AppendFails(entries, cap) THEN entries
    ELSE DescLoop(Tail(it), Append(entries, DescEntry(Head(it))), cap)

(***************************************************************************)
(* The handlers.  result is what the backend's add or modify returns, t    *)
(* what INDIGO_CURRENT_TIME reads, cap the capacity of the reply.          *)
(***************************************************************************)
ind_core_group_init ==
    /\ ind_core_group_hashtable = << >>
    /\ fwd = {}
    /\ now = 0
    /\ req = [op |-> "init"]
    /\ calls = << >>
    /\ sent = << >>

ValidIds == 0..OF_GROUP_MAX

Init ==
    /\ ind_core_group_init
    /\ reported = [id \in ValidIds |-> [prev |-> -1, last |-> -1]]

ind_core_group_add_handler(id, type, buckets, result, t) ==
    LET obj == [op |-> "add", id |-> id, type |-> type, buckets |-> buckets]
        check == AddCheck(ind_core_group_hashtable, id)
        cs == <<indigo_fwd_group_add(id, type, buckets, result)>>
    IN  /\ req' = obj
        /\ IF check # "OK"
           THEN /\ sent' = <<indigo_cxn_send_error_reply(
                                 obj, OF_ERROR_TYPE_GROUP_MOD_FAILED, check)>>
                /\ calls' = << >>
                /\ UNCHANGED <<ind_core_group_hashtable, fwd, now>>
           ELSE /\ calls' = cs
                /\ fwd' = FwdApplyAll(fwd, cs)
                /\ IF Failed(result)
                   THEN /\ sent' = <<indigo_cxn_send_error_reply(
                                         obj, OF_ERROR_TYPE_GROUP_MOD_FAILED,
                                         OF_GROUP_MOD_FAILED_INVALID_GROUP)>>
                        /\ UNCHANGED <<ind_core_group_hashtable, now>>
                   ELSE /\ t >= now
                        /\ now' = t
                        /\ ind_core_group_hashtable' =
                               group_hashtable_insert(ind_core_group_hashtable,
                                                      NewGroup(id, type, buckets, t))
                        /\ sent' = << >>

ind_core_group_modify_handler(id, type, buckets, result) ==
    LET obj == [op |-> "modify", id |-> id, type |-> type, buckets |-> buckets]
        check == ModifyCheck(ind_core_group_hashtable, id)
        i == LookupInRange(ind_core_group_hashtable, id)
        group == ind_core_group_hashtable[i]
        cs == ModifyCalls(group, id, type, buckets, result)
    IN  /\ req' = obj
        /\ UNCHANGED now
        /\ IF check # "OK"
           THEN /\ sent' = <<indigo_cxn_send_error_reply(
                                 obj, OF_ERROR_TYPE_GROUP_MOD_FAILED, check)>>
                /\ calls' = << >>
                /\ UNCHANGED <<ind_core_group_hashtable, fwd>>
           ELSE /\ calls' = cs
                /\ fwd' = FwdApplyAll(fwd, cs)
                /\ IF Failed(result)
                   THEN /\ sent' = <<indigo_cxn_send_error_reply(
                                         obj, OF_ERROR_TYPE_GROUP_MOD_FAILED,
                                         OF_GROUP_MOD_FAILED_INVALID_GROUP)>>
                        /\ UNCHANGED ind_core_group_hashtable
                   ELSE /\ ind_core_group_hashtable' =
                               [ind_core_group_hashtable EXCEPT
                                   ![i] = ModifiedGroup(group, type, buckets)]
                        /\ sent' = << >>

ind_core_group_delete_handler(id) ==
    LET obj == [op |-> "delete", id |-> id]
        i == LookupInRange(ind_core_group_hashtable, id)
        all == DeleteAllLoop(ind_core_group_hashtable,
                             bighash_iter_start(ind_core_group_hashtable), << >>)
    IN  /\ req' = obj
        /\ UNCHANGED now
        /\ IF id = OF_GROUP_ALL
           THEN /\ ind_core_group_hashtable' = all.table
                /\ calls' = all.calls
                /\ fwd' = FwdApplyAll(fwd, all.calls)
                /\ sent' = << >>
           ELSE IF i # 0
           THEN /\ ind_core_group_hashtable' =
                       ind_core_group_delete_one(ind_core_group_hashtable, i)
                /\ calls' = <<DeleteOneCall(ind_core_group_hashtable[i])>>
                /\ fwd' = FwdApplyAll(fwd, calls')
                /\ sent' = << >>
           ELSE IF id > OF_GROUP_MAX
           THEN /\ sent' = <<indigo_cxn_send_error_reply(
                                 obj, OF_ERROR_TYPE_GROUP_MOD_FAILED,
                                 OF_GROUP_MOD_FAILED_INVALID_GROUP)>>
                /\ calls' = << >>
                /\ UNCHANGED <<ind_core_group_hashtable, fwd>>
           ELSE /\ sent' = << >>
                /\ calls' = << >>
                /\ UNCHANGED <<ind_core_group_hashtable, fwd>>

ind_core_group_stats_request_handler(id, t, cap) ==
    LET obj == [op |-> "stats", id |-> id]
        all == StatsLoop(ind_core_group_hashtable, << >>, << >>, cap, t)
        i == ind_core_group_lookup(ind_core_group_hashtable, id)
        group == ind_core_group_hashtable[i]
        one == IF id <= OF_GROUP_MAX /\ i # 0
               THEN [entries |-> <<ind_core_group_stats_entry_populate(group, t)>>,
                     calls |-> <<indigo_fwd_group_stats_get(group.id)>>]
               ELSE [entries |-> << >>, calls |-> << >>]
        res == IF id = OF_GROUP_ALL THEN all ELSE one
    IN  /\ t >= now
        /\ now' = t
        /\ req' = obj
        /\ calls' = res.calls
        /\ sent' = <<[kind |-> "group_stats_reply", entries |-> res.entries,
                      cap |-> cap]>>
        /\ UNCHANGED <<ind_core_group_hashtable, fwd>>

ind_core_group_desc_stats_request_handler(cap) ==
    /\ req' = [op |-> "desc_stats"]
    /\ calls' = << >>
    /\ sent' = <<[kind |-> "group_desc_stats_reply",
                  entries |-> DescLoop(ind_core_group_hashtable, << >>, cap),
                  cap |-> cap]>>
    /\ UNCHANGED <<ind_core_group_hashtable, fwd, now>>

\* ind_core_unhandled_message answers for the handler
ind_core_group_features_stats_request_handler ==
    /\ req' = [op |-> "features_stats"]
    /\ calls' = << >>
    /\ sent' = <<[kind |-> "unhandled"]>>
    /\ UNCHANGED <<ind_core_group_hashtable, fwd, now>>

Next ==
    \/ \E id \in GroupIds, type \in GroupTypes, buckets \in BucketLists,
          result \in FwdResults, t \in ClockValues :
            ind_core_group_add_handler(id, type, buckets, result, t)
               /\ UNCHANGED reported
    \/ \E id \in GroupIds, type \in GroupTypes, buckets \in BucketLists,
          result \in FwdResults :
            ind_core_group_modify_handler(id, type, buckets, result)
               /\ UNCHANGED reported
    \/ \E id \in GroupIds : ind_core_group_delete_handler(id) /\ UNCHANGED reported
    \/ \E id \in GroupIds, t \in ClockValues, cap \in 1..MaxCap :
            ind_core_group_stats_request_handler(id, t, cap) /\ UNCHANGED reported
    \/ \E cap \in 1..MaxCap :
            ind_core_group_desc_stats_request_handler(cap) /\ UNCHANGED reported
    \/ ind_core_group_features_stats_request_handler /\ UNCHANGED reported

Spec == Init /\ [][Next]_vars

(***************************************************************************)
(* The same handlers with the durations of the stats replies recorded.     *)
(* The clock runs to MaxDurTime ticks; requests carry one bucket list and  *)
(* one group type.                                                         *)
(***************************************************************************)
MaxDurTime == 2
DurClockValues == {k * TickMs : k \in 0..MaxDurTime}
DurGroupIds == ValidIds \cup {OF_GROUP_ALL}
DurBucketLists == {<<1, 2>>}
DurGroupTypes == {1}

\* The duration of a stats entry in milliseconds
EntryMs(e) == e.duration_sec * 1000 + e.duration_nsec \div 1000000

\* The entry a stats reply m has for id
EntryFor(m, id) ==
    m.entries[Min({k \in 1..Len(m.entries) : m.entries[k].group_id = id})]

\* The handler's step as seen from outside: an id that has no record after
\* the step has no reported duration (-1); a stats reply with an entry for
\* the id adds its duration; otherwise the durations stay.
TrackDurations ==
    reported' =
        [id \in ValidIds |->
            IF Matching(ind_core_group_hashtable', id) = {}
            THEN [prev |-> -1, last |-> -1]
            ELSE IF req'.op = "stats"
                    /\ \E k \in 1..Len(sent'[1].entries) :
                          sent'[1].entries[k].group_id = id
                 THEN [prev |-> reported[id].last,
                       last |-> EntryMs(EntryFor(sent'[1], id))]
                 ELSE reported[id]]

NextDur ==
    \/ \E id \in DurGroupIds, type \in DurGroupTypes, buckets \in DurBucketLists,
          result \in FwdResults, t \in DurClockValues :
            ind_core_group_add_handler(id, type, buckets, result, t)
               /\ TrackDurations
    \/ \E id \in DurGroupIds, type \in DurGroupTypes, buckets \in DurBucketLists,
          result \in FwdResults :
            ind_core_group_modify_handler(id, type, buckets, result)
               /\ TrackDurations
    \/ \E id \in DurGroupIds : ind_core_group_delete_handler(id) /\ TrackDurations
    \/ \E id \in DurGroupIds, t \in DurClockValues, cap \in 1..MaxCap :
            ind_core_group_stats_request_handler(id, t, cap) /\ TrackDurations

SpecDur == Init /\ [][NextDur]_vars

(***************************************************************************)
(* Properties of the handlers.                                             *)
(***************************************************************************)
\* The records table t holds for id
RecordsOf(t, id) == {t[i] : i \in Matching(t, id)}

\* The last handler sent exactly one error reply, with code err_code,
\* echoing the request
SentError(s, r, err_code) ==
    s = <<indigo_cxn_send_error_reply(r, OF_ERROR_TYPE_GROUP_MOD_FAILED, err_code)>>

\* C1: between requests, a record for id exists in the store if and only if
\* the backend has group id programmed.
C1_StoreIffBackend ==
    \A id \in GroupIds : (id \in StoredIds) <=> (id \in fwd)

\* C2: the store holds at most one record per group id, and an Add that is
\* answered GROUP_EXISTS leaves exactly one record for its id.
C2_AtMostOneRecordPerId ==
    /\ \A id \in GroupIds : Cardinality(Matching(ind_core_group_hashtable, id)) <= 1
    /\ (req.op = "add" /\ SentError(sent, req, OF_GROUP_MOD_FAILED_GROUP_EXISTS))
          => Cardinality(Matching(ind_core_group_hashtable, req.id)) = 1

C2_Witness ==
    /\ req.op = "add"
    /\ SentError(sent, req, OF_GROUP_MOD_FAILED_GROUP_EXISTS)
    /\ Cardinality(Matching(ind_core_group_hashtable, req.id)) = 1
    /\ Len(ind_core_group_hashtable) = 2

\* C3: every record in the store has id <= OF_GROUP_MAX; OF_GROUP_ALL and
\* the other ids out of range are never stored.
C3_StoredIdsInRange ==
    \A i \in 1..Len(ind_core_group_hashtable) :
        /\ ind_core_group_hashtable[i].id <= OF_GROUP_MAX
        /\ ind_core_group_hashtable[i].id # OF_GROUP_ALL

C3_Witness ==
    /\ req.op = "add"
    /\ req.id = OF_GROUP_ALL
    /\ Len(ind_core_group_hashtable) > 0
    /\ OF_GROUP_ALL \notin StoredIds

\* C4: an Add with id > OF_GROUP_MAX, and a Delete with id > OF_GROUP_MAX
\* other than OF_GROUP_ALL, sends one INVALID_GROUP error reply, leaves the
\* store unchanged and makes no backend call.
C4_OutOfRangeRejected ==
    [][((req'.op = "add" /\ req'.id > OF_GROUP_MAX)
         \/ (req'.op = "delete" /\ req'.id > OF_GROUP_MAX /\ req'.id # OF_GROUP_ALL))
       => /\ SentError(sent', req', OF_GROUP_MOD_FAILED_INVALID_GROUP)
          /\ ind_core_group_hashtable' = ind_core_group_hashtable
          /\ calls' = << >>
          /\ fwd' = fwd]_vars

C4_Witness ==
    /\ req.op = "delete"
    /\ req.id = OF_GROUP_ANY
    /\ SentError(sent, req, OF_GROUP_MOD_FAILED_INVALID_GROUP)
    /\ calls = << >>
    /\ Len(ind_core_group_hashtable) > 0

\* C5: an Add with an id in range that has no record makes one backend add
\* with the request's fields; when that add succeeds the store has a record
\* for the id with the requested type and buckets, the records of the other
\* ids are unchanged, and no message is sent.
C5_AddInserts ==
    [][(req'.op = "add" /\ req'.id <= OF_GROUP_MAX
        /\ Matching(ind_core_group_hashtable, req'.id) = {})
       => /\ Len(calls') = 1
          /\ calls'[1].fn = "add"
          /\ calls'[1].id = req'.id
          /\ calls'[1].type = req'.type
          /\ calls'[1].buckets = req'.buckets
          /\ calls'[1].result = INDIGO_ERROR_NONE
                => /\ Cardinality(Matching(ind_core_group_hashtable', req'.id)) = 1
                   /\ \A g \in RecordsOf(ind_core_group_hashtable', req'.id) :
                         g.type = req'.type /\ g.buckets = req'.buckets
                   /\ \A other \in GroupIds \ {req'.id} :
                         RecordsOf(ind_core_group_hashtable', other)
                            = RecordsOf(ind_core_group_hashtable, other)
                   /\ Len(ind_core_group_hashtable') = Len(ind_core_group_hashtable) + 1
                   /\ sent' = << >>]_vars

C5_Witness ==
    /\ req.op = "add"
    /\ sent = << >>
    /\ Len(ind_core_group_hashtable) = 2
    /\ \E g \in RecordsOf(ind_core_group_hashtable, req.id) :
          g.type = req.type /\ g.buckets = req.buckets /\ g.type = 1

\* C6: an Add whose id already has a record sends one GROUP_EXISTS error
\* reply, makes no backend call and leaves the record (type, buckets,
\* creation_time) as it was.
C6_AddExisting ==
    [][(req'.op = "add" /\ Matching(ind_core_group_hashtable, req'.id) # {})
       => /\ SentError(sent', req', OF_GROUP_MOD_FAILED_GROUP_EXISTS)
          /\ calls' = << >>
          /\ fwd' = fwd
          /\ RecordsOf(ind_core_group_hashtable', req'.id)
                = RecordsOf(ind_core_group_hashtable, req'.id)
          /\ ind_core_group_hashtable' = ind_core_group_hashtable]_vars

C6_Witness ==
    /\ req.op = "add"
    /\ SentError(sent, req, OF_GROUP_MOD_FAILED_GROUP_EXISTS)
    /\ calls = << >>
    /\ \E g \in RecordsOf(ind_core_group_hashtable, req.id) :
          g.type # req.type /\ g.buckets # req.buckets /\ g.creation_time < now

\* C7: the store gets a new record only in an Add whose backend add for that
\* id returned success; when the backend add of an Add fails, the Add sends
\* one INVALID_GROUP error reply and inserts nothing.
C7_InsertOnlyAfterBackendAdd ==
    [][/\ \A id \in GroupIds :
            Cardinality(Matching(ind_core_group_hashtable', id))
               > Cardinality(Matching(ind_core_group_hashtable, id))
            => /\ req'.op = "add"
               /\ req'.id = id
               /\ calls' = <<indigo_fwd_group_add(id, req'.type, req'.buckets,
                                                  INDIGO_ERROR_NONE)>>
       /\ (req'.op = "add" /\ calls' # << >> /\ calls'[1].result < 0)
            => /\ SentError(sent', req', OF_GROUP_MOD_FAILED_INVALID_GROUP)
               /\ ind_core_group_hashtable' = ind_core_group_hashtable]_vars

C7_Witness ==
    /\ req.op = "add"
    /\ Len(calls) = 1
    /\ calls[1].fn = "add"
    /\ calls[1].result < 0
    /\ SentError(sent, req, OF_GROUP_MOD_FAILED_INVALID_GROUP)
    /\ req.id \notin StoredIds

\* C8: a Modify for an id that has no record (in range or not) sends one
\* UNKNOWN_GROUP error reply, makes no backend call and leaves the store
\* unchanged.
C8_ModifyAbsent ==
    [][(req'.op = "modify" /\ Matching(ind_core_group_hashtable, req'.id) = {})
       => /\ SentError(sent', req', OF_GROUP_MOD_FAILED_UNKNOWN_GROUP)
          /\ calls' = << >>
          /\ fwd' = fwd
          /\ ind_core_group_hashtable' = ind_core_group_hashtable]_vars

C8_Witness ==
    /\ req.op = "modify"
    /\ req.id = OF_GROUP_ALL
    /\ SentError(sent, req, OF_GROUP_MOD_FAILED_UNKNOWN_GROUP)
    /\ calls = << >>
    /\ Len(ind_core_group_hashtable) > 0

\* C9: a Modify of an existing record with the stored type makes exactly one
\* backend call, a modify; a Modify with another type makes exactly two, a
\* delete and then an add.
C9_ModifyBackendCalls ==
    [][(req'.op = "modify" /\ Matching(ind_core_group_hashtable, req'.id) # {})
       => \A g \in RecordsOf(ind_core_group_hashtable, req'.id) :
            IF g.type = req'.type
            THEN /\ Len(calls') = 1
                 /\ calls'[1].fn = "modify"
                 /\ calls'[1].id = req'.id
                 /\ calls'[1].buckets = req'.buckets
            ELSE /\ Len(calls') = 2
                 /\ calls'[1] = indigo_fwd_group_delete(req'.id)
                 /\ calls'[2].fn = "add"
                 /\ calls'[2].id = req'.id
                 /\ calls'[2].type = req'.type
                 /\ calls'[2].buckets = req'.buckets]_vars

C9_Witness ==
    /\ req.op = "modify"
    /\ Len(calls) = 1
    /\ calls[1].fn = "modify"
    /\ calls[1].id = req.id
    /\ req.id \in StoredIds

\* C10: a Modify of an existing record whose backend calls succeed gives the
\* record the requested type and buckets, keeps its id and creation_time,
\* leaves the records of the other ids unchanged, and sends no message.
C10_ModifyReplaces ==
    [][(req'.op = "modify" /\ Matching(ind_core_group_hashtable, req'.id) # {}
        /\ calls' # << >> /\ calls'[Len(calls')].result = INDIGO_ERROR_NONE)
       => /\ \A g \in RecordsOf(ind_core_group_hashtable, req'.id) :
                RecordsOf(ind_core_group_hashtable', req'.id)
                   = {[id |-> req'.id, type |-> req'.type, buckets |-> req'.buckets,
                       creation_time |-> g.creation_time]}
          /\ \A other \in GroupIds \ {req'.id} :
                RecordsOf(ind_core_group_hashtable', other)
                   = RecordsOf(ind_core_group_hashtable, other)
          /\ Len(ind_core_group_hashtable') = Len(ind_core_group_hashtable)
          /\ sent' = << >>]_vars

C10_Witness ==
    /\ req.op = "modify"
    /\ sent = << >>
    /\ Len(calls) = 2
    /\ Len(ind_core_group_hashtable) = 2
    /\ \E g \in RecordsOf(ind_core_group_hashtable, req.id) :
          g.type = req.type /\ g.buckets = req.buckets /\ g.creation_time < now

\* Number of times the call c is in the sequence cs
CountCalls(cs, c) == Cardinality({k \in 1..Len(cs) : cs[k] = c})

\* C11: when the backend call of a Modify of an existing record fails, the
\* Modify sends one INVALID_GROUP error reply and the record keeps its type
\* and buckets; when the type was to change (backend delete done, backend
\* add failed) the record stays while the backend has no group with the id.
C11_ModifyBackendFailure ==
    [][(req'.op = "modify" /\ Matching(ind_core_group_hashtable, req'.id) # {}
        /\ calls' # << >> /\ calls'[Len(calls')].result < 0)
       => /\ SentError(sent', req', OF_GROUP_MOD_FAILED_INVALID_GROUP)
          /\ ind_core_group_hashtable' = ind_core_group_hashtable
          /\ \A g \in RecordsOf(ind_core_group_hashtable, req'.id) :
                g.type # req'.type
                   => /\ g \in RecordsOf(ind_core_group_hashtable', req'.id)
                      /\ req'.id \notin fwd']_vars

C11_Witness ==
    /\ req.op = "modify"
    /\ Len(calls) = 2
    /\ calls[2].result < 0
    /\ SentError(sent, req, OF_GROUP_MOD_FAILED_INVALID_GROUP)
    /\ req.id \in StoredIds
    /\ req.id \notin fwd
    /\ \E g \in RecordsOf(ind_core_group_hashtable, req.id) :
          g.type # req.type /\ g.buckets # req.buckets

\* C12: a Delete with id = OF_GROUP_ALL leaves the store empty, calls the
\* backend delete exactly once for every id that was stored and for no
\* other id, makes no other backend call, and sends no message.
C12_DeleteAll ==
    [][(req'.op = "delete" /\ req'.id = OF_GROUP_ALL)
       => /\ ind_core_group_hashtable' = << >>
          /\ \A id \in GroupIds :
                CountCalls(calls', indigo_fwd_group_delete(id))
                   = IF Matching(ind_core_group_hashtable, id) # {} THEN 1 ELSE 0
          /\ \A k \in 1..Len(calls') : calls'[k].fn = "delete"
          /\ sent' = << >>]_vars

C12_Witness ==
    /\ req.op = "delete"
    /\ req.id = OF_GROUP_ALL
    /\ ind_core_group_hashtable = << >>
    /\ Len(calls) = 2
    /\ calls[1] # calls[2]
    /\ sent = << >>

\* C13: a Delete with an id in range sends no message and leaves the records
\* of the other ids unchanged; when the id had a record it calls the backend
\* delete for the id once and removes the record, when it had none it makes
\* no backend call and leaves the store unchanged; the id has no record
\* afterwards.
C13_DeleteOne ==
    [][(req'.op = "delete" /\ req'.id <= OF_GROUP_MAX)
       => /\ sent' = << >>
          /\ \A other \in GroupIds \ {req'.id} :
                RecordsOf(ind_core_group_hashtable', other)
                   = RecordsOf(ind_core_group_hashtable, other)
          /\ IF Matching(ind_core_group_hashtable, req'.id) # {}
             THEN /\ calls' = <<indigo_fwd_group_delete(req'.id)>>
                  /\ Len(ind_core_group_hashtable') = Len(ind_core_group_hashtable) - 1
             ELSE /\ calls' = << >>
                  /\ ind_core_group_hashtable' = ind_core_group_hashtable
          /\ Matching(ind_core_group_hashtable', req'.id) = {}]_vars

C13_Witness ==
    /\ req.op = "delete"
    /\ req.id <= OF_GROUP_MAX
    /\ calls = <<indigo_fwd_group_delete(req.id)>>
    /\ sent = << >>
    /\ req.id \notin StoredIds
    /\ Len(ind_core_group_hashtable) = 1

\* C14: a Stats request with an id other than OF_GROUP_ALL sends exactly one
\* message, a stats reply: with one entry carrying the id when the id has a
\* record, with no entry when it has none (ids out of range included).
C14_StatsOne ==
    (req.op = "stats" /\ req.id # OF_GROUP_ALL)
       => /\ Len(sent) = 1
          /\ sent[1].kind = "group_stats_reply"
          /\ IF Matching(ind_core_group_hashtable, req.id) # {}
             THEN /\ Len(sent[1].entries) = 1
                  /\ sent[1].entries[1].group_id = req.id
                  /\ calls = <<indigo_fwd_group_stats_get(req.id)>>
             ELSE /\ sent[1].entries = << >>
                  /\ calls = << >>

C14_Witness ==
    /\ req.op = "stats"
    /\ req.id = 1
    /\ Len(sent) = 1
    /\ Len(sent[1].entries) = 1
    /\ sent[1].entries[1].group_id = 1
    /\ Len(ind_core_group_hashtable) = 2

C16_DescStats ==
    req.op = "desc_stats"
       => /\ Len(sent) = 1
          /\ sent[1].kind = "group_desc_stats_reply"
          /\ LET es == sent[1].entries
                 n == Len(ind_core_group_hashtable)
             IN  /\ Len(es) = IF n <= sent[1].cap THEN n ELSE sent[1].cap
                 /\ \A k \in 1..Len(es) :
                       /\ es[k].group_id = ind_core_group_hashtable[k].id
                       /\ es[k].type = ind_core_group_hashtable[k].type
                       /\ es[k].buckets = ind_core_group_hashtable[k].buckets

C16_Witness ==
    /\ req.op = "desc_stats"
    /\ Len(ind_core_group_hashtable) = 2
    /\ Len(sent[1].entries) = 2
    /\ sent[1].entries[1].type = 1
    /\ sent[1].entries[1].buckets # sent[1].entries[2].buckets
    /\ sent[1].entries[1].group_id \notin fwd

\* C17: an Add, Modify or Delete sends either no message or exactly one
\* message, an error reply of the group-mod-failed family that echoes the
\* request; after an error reply the handlers go on taking requests.
C17_OneErrorOrNothing ==
    req.op \in {"add", "modify", "delete"}
       => \/ sent = << >>
          \/ /\ Len(sent) = 1
             /\ sent[1].kind = "error"
             /\ sent[1].err_type = OF_ERROR_TYPE_GROUP_MOD_FAILED
             /\ sent[1].orig = req
             /\ ENABLED Next

C17_Witness ==
    /\ req.op = "modify"
    /\ Len(sent) = 1
    /\ sent[1].kind = "error"
    /\ sent[1].orig = req
    /\ Len(calls) = 1
    /\ Len(ind_core_group_hashtable) = 2

\* C18: the duration a stats reply gives for a record (seconds and
\* nanoseconds) is never negative, and it is not smaller than the duration
\* the stats reply before gave for the same record.
C18_DurationMonotonic ==
    /\ req.op = "stats"
          => \A k \in 1..Len(sent[1].entries) :
                /\ sent[1].entries[k].duration_sec >= 0
                /\ sent[1].entries[k].duration_nsec >= 0
                /\ sent[1].entries[k].duration_nsec < 1000000000
    /\ \A id \in ValidIds :
          reported[id].prev # -1 => reported[id].last >= reported[id].prev

C18_Witness ==
    /\ req.op = "stats"
    /\ \E k \in 1..Len(sent[1].entries) :
          LET e == sent[1].entries[k]
          IN  /\ e.duration_sec = 1
              /\ e.duration_nsec > 0
              /\ reported[e.group_id].last = EntryMs(e)
              /\ reported[e.group_id].prev >= 0
              /\ reported[e.group_id].prev < 1000

\* C19: between requests, every id the backend has programmed has a record
\* in the store.
C19_BackendSubsetOfStore ==
    fwd \subseteq StoredIds

C19_Witness ==
    /\ fwd # {}
    /\ StoredIds \ fwd # {}
    /\ req.op = "modify"

\* C20: an error reply of the Add, Modify and Delete handlers carries
\* INVALID_GROUP, GROUP_EXISTS or UNKNOWN_GROUP, never the default EPERM.
C20_NoEperm ==
    \A k \in 1..Len(sent) :
        sent[k].kind = "error"
           => /\ req.op \in {"add", "modify", "delete"}
              /\ sent[k].err_code \in {OF_GROUP_MOD_FAILED_INVALID_GROUP,
                                       OF_GROUP_MOD_FAILED_GROUP_EXISTS,
                                       OF_GROUP_MOD_FAILED_UNKNOWN_GROUP}
              /\ sent[k].err_code # OF_GROUP_MOD_FAILED_EPERM

C20_Witness ==
    /\ req.op = "add"
    /\ req.id = OF_GROUP_ANY
    /\ Len(sent) = 1
    /\ sent[1].kind = "error"
    /\ sent[1].err_code = OF_GROUP_MOD_FAILED_INVALID_GROUP

====
